---- MODULE Spec2Model ----
(***************************************************************************)
(* NBA lineup prediction: the training-example builder                     *)
(* (data_processor.py), the candidate ranking (predictor.py) and the       *)
(* interactive session (main.py), as state machines.                       *)
(*                                                                         *)
(* Strings are sequences of code points, so that Python's string order,    *)
(* strip(), upper() and int() are computed and not assumed.  Real numbers  *)
(* are fixed-point integers in units of 1/Scale.                           *)
(***************************************************************************)
EXTENDS Integers, Sequences, FiniteSets, TLC

(***************************************************************************)
(* Bounds of the model.                                                    *)
(***************************************************************************)
MaxRows == 2
NumNpSeeds == 1
NumHashSeeds == 2
NumPySeeds == 2
NumModels == 2
MaxReprompts == 1
MaxRatingRows == 2
MaxCalls == 4
MaxOtherDraws == 1

(***************************************************************************)
(* Fixed-point unit and the hash modulus of the code (% 1000).             *)
(***************************************************************************)
Scale == 1000
HashMod == 1000
AltDraws_Three == 2 + 1
AltDraws == 2

(***************************************************************************)
(* Strings.                                                                *)
(***************************************************************************)
NaN == <<0>>
QM == <<63>>
None == <<0>>
EmptyStr == <<>>
nA == <<65>>
nAB == <<65, 66>>
nB == <<66>>
nC == <<67>>
nD == <<68>>
nE == <<69>>
nF == <<70>>
nG == <<71>>
nH == <<72>>
nK == <<75>>
tLAL == <<76, 65, 76>>
tPHO == <<80, 72, 79>>

Min2(a, b) == IF a < b THEN a ELSE b
Max2(a, b) == IF a > b THEN a ELSE b

RECURSIVE StrLess(_, _)
StrLess(a, b) ==
    IF b = <<>> THEN FALSE
    ELSE IF a = <<>> THEN TRUE
    ELSE IF Head(a) # Head(b) THEN Head(a) < Head(b)
    ELSE StrLess(Tail(a), Tail(b))

RECURSIVE Concat(_)
Concat(ss) == IF ss = <<>> THEN <<>> ELSE Head(ss) \o Concat(Tail(ss))

RECURSIVE InsertSorted(_, _)
InsertSorted(x, s) ==
    IF s = <<>> THEN <<x>>
    ELSE IF StrLess(x, Head(s)) THEN <<x>> \o s
    ELSE <<Head(s)>> \o InsertSorted(x, Tail(s))

RECURSIVE Sorted(_)
Sorted(s) == IF s = <<>> THEN <<>> ELSE InsertSorted(Head(s), Sorted(Tail(s)))

Range(s) == {s[i] : i \in 1..Len(s)}
Range2(f) == {f[k] : k \in DOMAIN f}

RECURSIVE SumSeq(_)
SumSeq(s) == IF s = <<>> THEN 0 ELSE Head(s) + SumSeq(Tail(s))

RECURSIVE SumSet(_, _)
SumSet(S, f) ==
    IF S = {} THEN 0
    ELSE LET x == CHOOSE y \in S : TRUE IN f[x] + SumSet(S \ {x}, f)

(***************************************************************************)
(* int(hashlib.md5(s.encode()).hexdigest(), 16) % 1000: a deterministic    *)
(* function of the byte string with values in 0..999.                      *)
(***************************************************************************)
RECURSIVE DigestFrom(_, _)
DigestFrom(h, s) ==
    IF s = <<>> THEN h ELSE DigestFrom((h * 131 + Head(s)) % HashMod, Tail(s))

Md5Mod(s) == DigestFrom(7, s)

(***************************************************************************)
(* The process-wide generator of the random module: its state is the seed  *)
(* it was last given and the number of draws since.  random() and          *)
(* choice() are deterministic functions of that state.                     *)
(***************************************************************************)
Seeded(seed) == [seed |-> seed, draws |-> 0]
Advance(st) == [st EXCEPT !.draws = @ + 1]
RandomOf(st) == (st.seed * 37 + st.draws * 101 + 11) % Scale
ChoiceIndex(st, n) == ((st.seed * 53 + st.draws * 29 + 3) % n) + 1

(***************************************************************************)
(* numpy's generator, never seeded by the code: its state is drawn when    *)
(* the process starts; normal(0, 0.05) is a function of that state.        *)
(***************************************************************************)
NormalOf(st) == (((st.seed * 7 + st.draws * 13) % 5) - 2) * 25

(***************************************************************************)
(* str hashing is salted per process: list(a_set) yields the elements in   *)
(* an order fixed by the salt.                                             *)
(***************************************************************************)
SaltedHash(salt, s) == DigestFrom(salt * 17 + 1, s)

RECURSIVE ListOfSet(_, _)
ListOfSet(salt, S) ==
    IF S = {} THEN <<>>
    ELSE LET m == CHOOSE x \in S : \A y \in S :
                      \/ SaltedHash(salt, x) < SaltedHash(salt, y)
                      \/ /\ SaltedHash(salt, x) = SaltedHash(salt, y)
                         /\ ~StrLess(y, x)
         IN  <<m>> \o ListOfSet(salt, S \ {m})

(***************************************************************************)
(* The matchup table: one record per lineup-stint row of the CSV files.    *)
(* A missing player slot is NaN.  home_win is row.get("home_win", 1).      *)
(***************************************************************************)
NoAway == <<NaN, NaN, NaN, NaN, NaN>>

MkRow(g, s, m, ht, at, home, away, hw) ==
    [game |-> g, season |-> s, starting_min |-> m, home_team |-> ht,
     away_team |-> at, home |-> home, away |-> away, home_win |-> hw]

RowPool ==
    { MkRow(1, 2007, 0, tLAL, tPHO, <<nA, nB, nC, nD, nE>>, NoAway, 1),
      MkRow(1, 2007, 5, tLAL, tPHO, <<nA, nB, nC, nD, nE>>,
            <<nF, NaN, NaN, NaN, NaN>>, 0),
      MkRow(2, 2008, 12, tPHO, tLAL, <<nA, nAB, nB, nC, nD>>,
            <<nF, nG, nH, nE, nK>>, 1),
      MkRow(1, 2007, 7, tLAL, tPHO, <<nA, nA, nB, nC, nD>>,
            <<nE, nA, NaN, NaN, NaN>>, 1),
      MkRow(2, 2008, 30, tPHO, tLAL, <<nA, nB, nC, nD, NaN>>,
            <<nF, nG, NaN, NaN, NaN>>, 1) }

RECURSIVE SeqsUpTo(_, _)
SeqsUpTo(S, n) ==
    IF n = 0 THEN {<<>>}
    ELSE LET shorter == SeqsUpTo(S, n - 1)
         IN  shorter \cup {Append(t, r) : t \in {u \in shorter : Len(u) = n - 1}, r \in S}

Tables == SeqsUpTo(RowPool, MaxRows)

(***************************************************************************)
(* pd.notna filtering of the five home_i / away_i columns of a row.        *)
(***************************************************************************)
NotNa(s) == SelectSeq(s, LAMBDA p : p # NaN)
HomePlayers(row) == NotNa(row.home)
AwayPlayers(row) == NotNa(row.away)

Occ(s, p) == Cardinality({i \in 1..Len(s) : s[i] = p})

AllPlayers(data) ==
    UNION {Range(HomePlayers(data[i])) \cup Range(AwayPlayers(data[i])) :
           i \in 1..Len(data)}

(***************************************************************************)
(* create_player_ratings: the four counters, then the rating.              *)
(***************************************************************************)
PlayerCount(data, p) ==
    SumSeq([i \in 1..Len(data) |->
            Occ(HomePlayers(data[i]) \o AwayPlayers(data[i]), p)])

HomeWinCount(data, p) ==
    SumSeq([i \in 1..Len(data) |->
            IF data[i].home_win # 0 /\ p \in Range(HomePlayers(data[i]))
            THEN Occ(HomePlayers(data[i]) \o AwayPlayers(data[i]), p)
            ELSE 0])

PairingCount(data, p1, p2) ==
    SumSeq([i \in 1..Len(data) |->
            LET h == HomePlayers(data[i])
            IN  Cardinality({ij \in (1..Len(h)) \X (1..Len(h)) :
                    ij[1] # ij[2] /\ h[ij[1]] = p1 /\ h[ij[2]] = p2})])

OpponentCount(data, hp, ap) ==
    SumSeq([i \in 1..Len(data) |->
            Occ(HomePlayers(data[i]), hp) * Occ(AwayPlayers(data[i]), ap)])

SetMax(S, default) == IF S = {} THEN default ELSE CHOOSE m \in S : \A y \in S : y <= m
SetMin(S, default) == IF S = {} THEN default ELSE CHOOSE m \in S : \A y \in S : m <= y

MaxCount(counts) == SetMax(Range2(counts), 1)
MinCount(counts) == SetMin(Range2(counts), 0)

BaseRating(count, min_count, range_count) ==
    Scale \div 2 + ((Scale \div 2) * (count - min_count)) \div Max2(1, range_count)

\* pairing_counts[p] and opponent_counts[p]: the dicts, keyed by the players
\* counted at least once
PairingCounts(data, p) ==
    LET all == [q \in AllPlayers(data) |-> PairingCount(data, p, q)]
    IN  [q \in {r \in AllPlayers(data) : all[r] > 0} |-> all[q]]

OpponentCounts(data, p) ==
    LET all == [q \in AllPlayers(data) |-> OpponentCount(data, p, q)]
    IN  [q \in {r \in AllPlayers(data) : all[r] > 0} |-> all[q]]

\* np.mean of the values of a counter dict, in fixed point; 0 for an empty dict
MeanOf(counts) ==
    IF DOMAIN counts = {} THEN 0
    ELSE (SumSet(DOMAIN counts, counts) * Scale) \div Cardinality(DOMAIN counts)

PairingFactor(avg_teammate_pairing, max_count) ==
    Scale + (avg_teammate_pairing * 3) \div (10 * Max2(1, max_count))

OpponentFactor(avg_opponent_frequency, max_count) ==
    Scale + (avg_opponent_frequency * 2) \div (10 * Max2(1, max_count))

HomeWinFactor(home_wins, count) ==
    Scale + (home_wins * Scale * 3) \div (10 * Max2(1, count))

create_player_ratings(data) ==
    LET counts == [p \in AllPlayers(data) |-> PlayerCount(data, p)]
        max_count == MaxCount(counts)
        min_count == MinCount(counts)
    IN  [p \in AllPlayers(data) |->
            (((((BaseRating(counts[p], min_count, max_count - min_count)
                 * PairingFactor(MeanOf(PairingCounts(data, p)), max_count)) \div Scale)
                 * OpponentFactor(MeanOf(OpponentCounts(data, p)), max_count)) \div Scale)
                 * HomeWinFactor(HomeWinCount(data, p), counts[p])) \div Scale]

(***************************************************************************)
(* create_team_ratings: every team's rating comes from the generator       *)
(* re-seeded with the digest of the team's name; the generator is left in  *)
(* the state after the last team of the set's iteration.                   *)
(***************************************************************************)
Teams(data) ==
    {data[i].home_team : i \in 1..Len(data)} \cup {data[i].away_team : i \in 1..Len(data)}

TeamRating(team) == (4 * Scale) \div 10 + (4 * RandomOf(Seeded(Md5Mod(team)))) \div 10

create_team_ratings(data) == [t \in Teams(data) |-> TeamRating(t)]

RandomAfterTeams(salt, data, st) ==
    LET order == ListOfSet(salt, Teams(data))
    IN  IF order = <<>> THEN st
        ELSE Advance(Seeded(Md5Mod(order[Len(order)])))

(***************************************************************************)
(* calculate_lineup_effectiveness.  Every call re-seeds the random module  *)
(* with the digest of the sorted, concatenated names and draws once from   *)
(* it, and draws once from numpy's generator.                              *)
(***************************************************************************)
RatingOf(ratings, p, default) == IF p \in DOMAIN ratings THEN ratings[p] ELSE default

MeanRating(players, ratings) ==
    SumSeq([i \in 1..Len(players) |-> RatingOf(ratings, players[i], Scale \div 2)])
        \div Len(players)

\* a seed taken from the names in the order given
SynergySeed_Unsorted(players) == Md5Mod(Concat(players))

SynergySeed(players) == Md5Mod(Concat(Sorted(players)))

SynergyFactor(players) ==
    (8 * Scale) \div 10 + (4 * RandomOf(Seeded(SynergySeed(players)))) \div 10

MatchupFactor(players, ratings, opponent_players) ==
    IF opponent_players # <<>>
    THEN LET d == MeanRating(players, ratings) - MeanRating(opponent_players, ratings)
         IN  IF d >= 0 THEN Scale + (2 * d) \div 10 ELSE Scale - (2 * (-d)) \div 10
    ELSE Scale

calculate_lineup_effectiveness(players, ratings, team, tratings, opponent, opponent_players, np) ==
    LET team_factor == RatingOf(tratings, team, (6 * Scale) \div 10)
        opponent_factor == Scale - RatingOf(tratings, opponent, (6 * Scale) \div 10)
        weighted == (MeanRating(players, ratings) * 4 + team_factor * 2
                     + opponent_factor * 1 + SynergyFactor(players) * 3) \div 10
        effectiveness ==
            (weighted * MatchupFactor(players, ratings, opponent_players)) \div Scale
            + NormalOf(np)
    IN  2 * effectiveness - Scale

RandomAfterScore(players) == Advance(Seeded(SynergySeed(players)))

(***************************************************************************)
(* data.groupby('game'): the games in ascending order, the rows of a game  *)
(* in table order; the teams of a game are those of its first row.         *)
(***************************************************************************)
RECURSIVE IntsAscending(_)
IntsAscending(S) ==
    IF S = {} THEN <<>>
    ELSE LET m == CHOOSE a \in S : \A b \in S : a <= b
         IN  <<m>> \o IntsAscending(S \ {m})

RowsOfGame(data, g) ==
    SelectSeq([i \in 1..Len(data) |-> i], LAMBDA i : data[i].game = g)

GroupOrder(data) ==
    LET games == IntsAscending({data[i].game : i \in 1..Len(data)})
    IN  Concat([k \in 1..Len(games) |-> RowsOfGame(data, games[k])])

FirstRowOfGame(data, g) == data[RowsOfGame(data, g)[1]]

RemoveAt(s, k) == [i \in 1..(Len(s) - 1) |-> IF i < k THEN s[i] ELSE s[i + 1]]

(***************************************************************************)
(* State of prepare_training_data.                                         *)
(*   data, salt, npState, pyRandom : the table, the str-hash salt and the  *)
(*       two generators of the process                                     *)
(*   player_ratings, team_ratings, examples, other_players, example,       *)
(*   base_effectiveness, leave_out_idx : the locals of the function        *)
(*   rowPos   : position in the groupby iteration                          *)
(*   altIter  : the loop variable of "for _ in range(2)"                   *)
(*   outcome  : how the call ended (a returned table or a raised error)    *)
(*   scoreLog, prov : history variables: every scorer call with its        *)
(*       result, and for each example the row, held-out index and the      *)
(*       scorer calls its label was computed from                          *)
(* base_effectiveness and the labels are kept in units of 1/(5*Scale), so  *)
(* that the factor 0.8 is exact.                                           *)
(***************************************************************************)
VARIABLES data, salt, npState, pyRandom, player_ratings, team_ratings,
          order, rowPos, leave_out_idx, other_players, altIter, example,
          base_effectiveness, examples, scoreLog, prov, pc, outcome

bvars == <<data, salt, npState, pyRandom, player_ratings, team_ratings,
           order, rowPos, leave_out_idx, other_players, altIter, example,
           base_effectiveness, examples, scoreLog, prov, pc, outcome>>

NoExample == [game_id |-> 0]
NoOutcome == [kind |-> "none"]
EmptyMsg == "No training examples could be created. Check the data format."

BuilderInit ==
    /\ data \in Tables
    /\ salt \in 0..(NumHashSeeds - 1)
    /\ npState \in {Seeded(k) : k \in 0..(NumNpSeeds - 1)}
    /\ pyRandom \in {Seeded(k) : k \in 0..(NumPySeeds - 1)}
    /\ player_ratings = <<>>
    /\ team_ratings = <<>>
    /\ order = <<>>
    /\ rowPos = 0
    /\ leave_out_idx = 0
    /\ other_players = {}
    /\ altIter = 0
    /\ example = NoExample
    /\ base_effectiveness = 0
    /\ examples = <<>>
    /\ scoreLog = <<>>
    /\ prov = <<>>
    /\ pc = "start"
    /\ outcome = NoOutcome

CurrentRow == data[order[rowPos]]
home_players == HomePlayers(CurrentRow)
away_players == AwayPlayers(CurrentRow)
home_team == FirstRowOfGame(data, CurrentRow.game).home_team
away_team == FirstRowOfGame(data, CurrentRow.game).away_team
remaining_players == RemoveAt(home_players, leave_out_idx + 1)

Score(players, np) ==
    calculate_lineup_effectiveness(players, player_ratings, home_team,
                                   team_ratings, away_team, away_players, np)

\* lines 143-144
CreateRatings ==
    /\ pc = "start"
    /\ player_ratings' = create_player_ratings(data)
    /\ team_ratings' = create_team_ratings(data)
    /\ pyRandom' = RandomAfterTeams(salt, data, pyRandom)
    /\ order' = GroupOrder(data)
    /\ rowPos' = 1
    /\ pc' = "row"
    /\ UNCHANGED <<data, salt, npState, leave_out_idx, other_players, altIter,
                   example, base_effectiveness, examples, scoreLog, prov, outcome>>

\* a short row that aborts the run instead of being passed over
SkipRow_Raises ==
    /\ pc = "row"
    /\ rowPos <= Len(data)
    /\ Len(home_players) # 5
    /\ outcome' = [kind |-> "raise", exc |-> "IndexError", msg |-> "list index out of range"]
    /\ pc' = "done"
    /\ UNCHANGED <<data, salt, npState, pyRandom, player_ratings, team_ratings,
                   order, rowPos, leave_out_idx, other_players, altIter, example,
                   base_effectiveness, examples, scoreLog, prov>>

\* lines 161-165: a row without exactly 5 resolved home players
SkipRow ==
    /\ pc = "row"
    /\ rowPos <= Len(data)
    /\ Len(home_players) # 5
    /\ rowPos' = rowPos + 1
    /\ UNCHANGED <<data, salt, npState, pyRandom, player_ratings, team_ratings,
                   order, leave_out_idx, other_players, altIter, example,
                   base_effectiveness, examples, scoreLog, prov, pc, outcome>>

\* lines 161-172: a row with 5 resolved home players enters the leave-out loop
AcceptRow ==
    /\ pc = "row"
    /\ rowPos <= Len(data)
    /\ Len(home_players) = 5
    /\ leave_out_idx' = 0
    /\ pc' = "heldout"
    /\ UNCHANGED <<data, salt, npState, pyRandom, player_ratings, team_ratings,
                   order, rowPos, other_players, altIter, example, base_effectiveness,
                   examples, scoreLog, prov, outcome>>

RealExample(label) ==
    [game_id |-> CurrentRow.game,
     home_team |-> home_team,
     away_team |-> away_team,
     season |-> CurrentRow.season,
     starting_min |-> CurrentRow.starting_min,
     player_1 |-> remaining_players[1],
     player_2 |-> remaining_players[2],
     player_3 |-> remaining_players[3],
     player_4 |-> remaining_players[4],
     fifth_player |-> home_players[leave_out_idx + 1],
     effectiveness |-> label,
     away_player |-> away_players]

\* line 210
OtherPlayers_Remaining == DOMAIN player_ratings \ Range(remaining_players)
OtherPlayers == DOMAIN player_ratings \ Range(home_players)

\* lines 187 and 229, in units of 1/(5*Scale)
Contribution_NoBase(effectiveness, base) == 5 * effectiveness
Contribution(effectiveness, base) == 5 * effectiveness - base

\* lines 234-247
FinalOutcome_EmptyTable(exs) == [kind |-> "return", rows |-> Len(exs)]
FinalOutcome(exs) ==
    IF exs = <<>>
    THEN [kind |-> "raise", exc |-> "ValueError", msg |-> EmptyMsg]
    ELSE [kind |-> "return", rows |-> Len(exs)]

\* a scorer that leaves the random module as it found it, but for one draw
HeldOut_KeepsGenerator ==
    /\ pc = "heldout"
    /\ LET actual == Score(home_players, npState)
           base == 4 * Score(remaining_players, Advance(npState))
           n == Len(scoreLog)
           ex == RealExample(Contribution(actual, base))
       IN  /\ base_effectiveness' = base
           /\ example' = ex
           /\ examples' = Append(examples, ex)
           /\ scoreLog' = scoreLog \o
                  << [players |-> home_players, value |-> actual],
                     [players |-> remaining_players, value |-> base \div 4] >>
           /\ prov' = Append(prov, [pos |-> rowPos, idx |-> leave_out_idx,
                                    kind |-> "real", score |-> n + 1, base |-> n + 2])
    /\ npState' = Advance(Advance(npState))
    /\ pyRandom' = Advance(pyRandom)
    /\ other_players' = OtherPlayers
    /\ altIter' = 0
    /\ pc' = "alt"
    /\ UNCHANGED <<data, salt, player_ratings, team_ratings, order, rowPos,
                   leave_out_idx, outcome>>

\* lines 173-210: the real example of one held-out choice
HeldOut ==
    /\ pc = "heldout"
    /\ LET actual == Score(home_players, npState)
           base == 4 * Score(remaining_players, Advance(npState))
           n == Len(scoreLog)
           ex == RealExample(Contribution(actual, base))
       IN  /\ base_effectiveness' = base
           /\ example' = ex
           /\ examples' = Append(examples, ex)
           /\ scoreLog' = scoreLog \o
                  << [players |-> home_players, value |-> actual],
                     [players |-> remaining_players, value |-> base \div 4] >>
           /\ prov' = Append(prov, [pos |-> rowPos, idx |-> leave_out_idx,
                                    kind |-> "real", score |-> n + 1, base |-> n + 2])
    /\ npState' = Advance(Advance(npState))
    /\ pyRandom' = RandomAfterScore(remaining_players)
    /\ other_players' = OtherPlayers
    /\ altIter' = 0
    /\ pc' = "alt"
    /\ UNCHANGED <<data, salt, player_ratings, team_ratings, order, rowPos,
                   leave_out_idx, outcome>>

\* lines 211-232: one alternative candidate
DrawAlt ==
    /\ pc = "alt"
    /\ altIter < AltDraws
    /\ other_players # {}
    /\ LET pool == ListOfSet(salt, other_players)
           alt_player == pool[ChoiceIndex(pyRandom, Len(pool))]
           alt_lineup == Append(remaining_players, alt_player)
           alt_effectiveness == Score(alt_lineup, npState)
           alt_example == [example EXCEPT
                              !.fifth_player = alt_player,
                              !.effectiveness =
                                  Contribution(alt_effectiveness, base_effectiveness)]
       IN  /\ other_players' = other_players \ {alt_player}
           /\ examples' = Append(examples, alt_example)
           /\ scoreLog' = Append(scoreLog,
                                 [players |-> alt_lineup, value |-> alt_effectiveness])
           /\ prov' = Append(prov, [pos |-> rowPos, idx |-> leave_out_idx,
                                    kind |-> "alt", score |-> Len(scoreLog) + 1,
                                    base |-> prov[Len(prov)].base])
           /\ pyRandom' = RandomAfterScore(alt_lineup)
    /\ npState' = Advance(npState)
    /\ altIter' = altIter + 1
    /\ UNCHANGED <<data, salt, player_ratings, team_ratings, order, rowPos,
                   leave_out_idx, example, base_effectiveness, pc, outcome>>

\* lines 211-213 and the ends of the loops of lines 172 and 155
EndAlternatives ==
    /\ pc = "alt"
    /\ altIter = AltDraws \/ other_players = {}
    /\ IF leave_out_idx < 4
       THEN /\ leave_out_idx' = leave_out_idx + 1
            /\ pc' = "heldout"
            /\ UNCHANGED rowPos
       ELSE /\ rowPos' = rowPos + 1
            /\ pc' = "row"
            /\ UNCHANGED leave_out_idx
    /\ UNCHANGED <<data, salt, npState, pyRandom, player_ratings, team_ratings,
                   order, other_players, altIter, example, base_effectiveness,
                   examples, scoreLog, prov, outcome>>

\* lines 234-247
Finish ==
    /\ pc = "row"
    /\ rowPos > Len(data)
    /\ outcome' = FinalOutcome(examples)
    /\ pc' = "done"
    /\ UNCHANGED <<data, salt, npState, pyRandom, player_ratings, team_ratings,
                   order, rowPos, leave_out_idx, other_players, altIter, example,
                   base_effectiveness, examples, scoreLog, prov>>

BuilderNext ==
    \/ CreateRatings
    \/ SkipRow
    \/ AcceptRow
    \/ HeldOut
    \/ DrawAlt
    \/ EndAlternatives
    \/ Finish

(***************************************************************************)
(* predictor.py.  A LabelEncoder is its classes_: the sorted distinct       *)
(* labels it was fit on; transform gives a label's position and raises      *)
(* ValueError on a label it has not seen.                                   *)
(***************************************************************************)
RECURSIVE LabelEncoderFit(_)
LabelEncoderFit(S) ==
    IF S = {} THEN <<>>
    ELSE LET m == CHOOSE a \in S : \A c \in S : ~StrLess(c, a)
         IN  <<m>> \o LabelEncoderFit(S \ {m})

Seen(classes, label) == \E i \in 1..Len(classes) : classes[i] = label
Transform(classes, label) == (CHOOSE i \in 1..Len(classes) : classes[i] = label) - 1
InverseTransform(classes, code) == classes[code + 1]

\* lines 21-46: the feature vector of a candidate can be built
FeaturesBuilt(enc, c, candidate) ==
    /\ Seen(enc.home_team, c.home_team)
    /\ Seen(enc.away_team, c.away_team)
    /\ \A i \in 1..Len(c.four_players) : Seen(enc.player, c.four_players[i])
    /\ Seen(enc.player, candidate)
    /\ \A i \in 1..Len(c.opposing_lineup) : Seen(enc.player, c.opposing_lineup[i])
    /\ Len(c.four_players) >= 4

DefaultSeason == 2015

\* lines 35-46
Features(enc, c, candidate) ==
    << IF c.season # 0 THEN c.season ELSE DefaultSeason,
       c.starting_min,
       Transform(enc.home_team, c.home_team),
       Transform(enc.away_team, c.away_team),
       Transform(enc.player, c.four_players[1]),
       Transform(enc.player, c.four_players[2]),
       Transform(enc.player, c.four_players[3]),
       Transform(enc.player, c.four_players[4]),
       Transform(enc.player, candidate) >>
    \o [i \in 1..Len(c.opposing_lineup) |-> Transform(enc.player, c.opposing_lineup[i])]

\* model.predict: the fitted regressor is a deterministic function of the
\* feature vector (here one of a family indexed by model.w), fit on the 14
\* feature columns of build_feature_matrix
ModelPredict(m, features) ==
    ((SumSeq([i \in 1..Len(features) |-> features[i] * (1 + ((i + m.w) % 3))]) % 3) - 1)
        * (Scale \div 10)

\* lines 16-58: the predicted value, or None with a printed message
predict_lineup_effectiveness(m, enc, c, candidate) ==
    IF FeaturesBuilt(enc, c, candidate)
    THEN [none |-> FALSE, value |-> ModelPredict(m, Features(enc, c, candidate))]
    ELSE [none |-> TRUE, value |-> 0]

\* line 75: results.sort(key=lambda x: x[1], reverse=True), a stable sort
RECURSIVE InsertDescFirst(_, _)
InsertDescFirst(r, s) ==
    IF s = <<>> THEN <<r>>
    ELSE IF Head(s)[2] > r[2] THEN <<Head(s)>> \o InsertDescFirst(r, Tail(s))
    ELSE <<r>> \o s

RECURSIVE InsertDesc(_, _)
InsertDesc(r, s) ==
    IF s = <<>> THEN <<r>>
    ELSE IF Head(s)[2] >= r[2] THEN <<Head(s)>> \o InsertDesc(r, Tail(s))
    ELSE <<r>> \o s

RECURSIVE SortDescFrom(_, _)
SortDescFrom(done, rest) ==
    IF rest = <<>> THEN done
    ELSE SortDescFrom(InsertDesc(Head(rest), done), Tail(rest))

SortByEffectiveness_TiesReversed(rs) ==
    LET RECURSIVE Go(_, _)
        Go(done, rest) ==
            IF rest = <<>> THEN done
            ELSE Go(InsertDescFirst(Head(rest), done), Tail(rest))
    IN  Go(<<>>, rs)
SortByEffectiveness(rs) == SortDescFrom(<<>>, rs)

(***************************************************************************)
(* State of find_optimal_fifth_player.                                     *)
(*   model, encoders : the loaded artifact                                 *)
(*   call     : the arguments of the call                                  *)
(*   cand_idx : position of the loop over candidates                       *)
(*   results  : the list of (candidate, effectiveness)                     *)
(*   warned   : the candidates for which "Error during prediction" was     *)
(*              printed, in order                                          *)
(*   rpc      : "idle", "loop" or "returned"                               *)
(***************************************************************************)
VARIABLES model, encoders, call, cand_idx, results, warned, rpc

rvars == <<model, encoders, call, cand_idx, results, warned, rpc>>

NoCall == [season |-> 0]

\* a loop in which a failed encoding ends the whole call
ScoreCandidate_Abort ==
    /\ rpc = "loop"
    /\ cand_idx <= Len(call.candidates)
    /\ LET candidate == call.candidates[cand_idx]
           effectiveness == predict_lineup_effectiveness(model, encoders, call, candidate)
       IN  IF effectiveness.none
           THEN /\ rpc' = "raised"
                /\ UNCHANGED <<results, cand_idx>>
           ELSE /\ results' = Append(results, <<candidate, effectiveness.value>>)
                /\ cand_idx' = cand_idx + 1
                /\ UNCHANGED rpc
    /\ UNCHANGED <<model, encoders, call, warned>>

\* lines 65-72: one candidate of the loop
ScoreCandidate ==
    /\ rpc = "loop"
    /\ cand_idx <= Len(call.candidates)
    /\ LET candidate == call.candidates[cand_idx]
           effectiveness == predict_lineup_effectiveness(model, encoders, call, candidate)
       IN  IF effectiveness.none
           THEN /\ warned' = Append(warned, candidate)
                /\ UNCHANGED results
           ELSE /\ results' = Append(results, <<candidate, effectiveness.value>>)
                /\ UNCHANGED warned
    /\ cand_idx' = cand_idx + 1
    /\ UNCHANGED <<model, encoders, call, rpc>>

\* lines 74-77
SortAndReturn ==
    /\ rpc = "loop"
    /\ cand_idx > Len(call.candidates)
    /\ results' = SortByEffectiveness(results)
    /\ rpc' = "returned"
    /\ UNCHANGED <<model, encoders, call, cand_idx, warned>>

RankNext == ScoreCandidate \/ SortAndReturn

(***************************************************************************)
(* feature_engineering.encode_categorical_features over the table of       *)
(* examples.  The DataFrame built from the examples has one away_player_i  *)
(* column for every position some example fills; an example that does not  *)
(* fill it holds NaN there.                                                *)
(***************************************************************************)
AwayColumns(exs) == SetMax({Len(exs[i].away_player) : i \in 1..Len(exs)}, 0)

\* the cells of the columns whose name contains 'player', in column order:
\* player_1..player_4, fifth_player, away_player_0..
PlayerCells(ex, ncols) ==
    <<ex.player_1, ex.player_2, ex.player_3, ex.player_4, ex.fifth_player>>
        \o [i \in 1..ncols |-> IF i <= Len(ex.away_player) THEN ex.away_player[i] ELSE NaN]

PlayerColumn(exs, c) ==
    LET ncols == AwayColumns(exs)
    IN  [i \in 1..Len(exs) |-> PlayerCells(exs[i], ncols)[c]]

\* lines 18-20: the names pooled over the player columns, NaN dropped
PooledPlayers(exs) ==
    LET ncols == AwayColumns(exs)
    IN  UNION {Range(PlayerCells(exs[i], ncols)) : i \in 1..Len(exs)} \ {NaN}

\* lines 10-12 and 23-25: the fitted codebooks
FitEncoders(exs) ==
    [home_team |-> LabelEncoderFit({exs[i].home_team : i \in 1..Len(exs)}),
     away_team |-> LabelEncoderFit({exs[i].away_team : i \in 1..Len(exs)}),
     player |-> LabelEncoderFit(PooledPlayers(exs))]

\* line 29: transform raises on a label the encoder was not fit on
TransformRaises(exs) ==
    \E c \in 1..(5 + AwayColumns(exs)) : NaN \in Range(PlayerColumn(exs, c))

\* a codebook fit for each column on its own
ColumnCodes_PerColumn(enc, exs, c) ==
    LET column == PlayerColumn(exs, c)
        own == LabelEncoderFit(Range(column))
    IN  [i \in 1..Len(exs) |-> Transform(own, column[i])]

\* line 29: player_encoder.transform(df[col])
ColumnCodes(enc, exs, c) ==
    LET column == PlayerColumn(exs, c)
    IN  [i \in 1..Len(exs) |-> Transform(enc.player, column[i])]

\* lines 5-31: the encoders and the *_encoded columns
encode_categorical_features(exs) ==
    LET enc == FitEncoders(exs)
    IN  [encoders |-> enc,
         home_team_encoded |-> [i \in 1..Len(exs) |-> Transform(enc.home_team, exs[i].home_team)],
         away_team_encoded |-> [i \in 1..Len(exs) |-> Transform(enc.away_team, exs[i].away_team)],
         player_encoded |-> [c \in 1..(5 + AwayColumns(exs)) |-> ColumnCodes(enc, exs, c)]]

(***************************************************************************)
(* State of main.train_pipeline.                                           *)
(*   tpc          : the statement the pipeline is at                       *)
(*   encoded      : what encode_categorical_features returned              *)
(*   artifact     : whether the model file of this run is on disk          *)
(*   printed      : the error messages printed                             *)
(*   train_result : how train_pipeline ended                               *)
(***************************************************************************)
VARIABLES tpc, encoded, artifact, printed, train_result

tvars == <<tpc, encoded, artifact, printed, train_result>>

NotEncoded == [encoders |-> None]
NoResult == [kind |-> "none"]

\* main.py:1-7: the names the module imports
ImportedNames ==
    {"os", "argparse", "pd", "load_data", "prepare_training_data",
     "encode_categorical_features", "build_feature_matrix", "get_player_candidates",
     "train_model", "save_model", "analyze_feature_importance", "load_model",
     "find_optimal_fifth_player"}

TrainIdle ==
    /\ tpc = "idle"
    /\ encoded = NotEncoded
    /\ artifact = "absent"
    /\ printed = <<>>
    /\ train_result = NoResult

TrainInit ==
    /\ tpc = "prepare"
    /\ encoded = NotEncoded
    /\ artifact = "absent"
    /\ printed = <<>>
    /\ train_result = NoResult

\* lines 23-30: prepare_training_data returned or raised
Prepared ==
    /\ tpc = "prepare"
    /\ pc = "done"
    /\ IF outcome.kind = "raise"
       THEN /\ tpc' = "except"
            /\ printed' = Append(printed, outcome.msg)
       ELSE /\ tpc' = "encode"
            /\ UNCHANGED printed
    /\ UNCHANGED <<encoded, artifact, train_result>>

\* lines 32-34
Encode ==
    /\ tpc = "encode"
    /\ IF TransformRaises(examples)
       THEN /\ tpc' = "except"
            /\ printed' = Append(printed, "y contains previously unseen labels")
            /\ UNCHANGED encoded
       ELSE /\ tpc' = "fit"
            /\ encoded' = encode_categorical_features(examples)
            /\ UNCHANGED printed
    /\ UNCHANGED <<artifact, train_result>>

\* lines 36-61: build_feature_matrix, train_model, analyze_feature_importance
FitModel ==
    /\ tpc = "fit"
    /\ tpc' = "save"
    /\ UNCHANGED <<encoded, artifact, printed, train_result>>

\* lines 63-69: save_model writes the file, or the write fails
SaveModel ==
    /\ tpc = "save"
    /\ \E written \in BOOLEAN :
          IF written
          THEN /\ artifact' = "written"
               /\ train_result' = [kind |-> "returned", value |-> "model, encoders"]
               /\ tpc' = "end"
               /\ UNCHANGED printed
          ELSE /\ tpc' = "except"
               /\ printed' = Append(printed, "OSError")
               /\ UNCHANGED <<artifact, train_result>>
    /\ UNCHANGED encoded

\* lines 71-74: the handler prints the message, then evaluates the name
\* traceback, which the module does not import
ExceptHandler ==
    /\ tpc = "except"
    /\ train_result' = IF "traceback" \in ImportedNames
                       THEN [kind |-> "returned", value |-> "None"]
                       ELSE [kind |-> "propagated", value |-> "NameError"]
    /\ tpc' = "end"
    /\ UNCHANGED <<encoded, artifact, printed>>

TrainNext == Prepared \/ Encode \/ FitModel \/ SaveModel \/ ExceptHandler

(***************************************************************************)
(* State of predict_interactive.                                           *)
(*   session    : the locals of the function, under their names            *)
(*   spc        : the statement the session is at                          *)
(*   model_file : whether the file at model_path exists                    *)
(*   stdin_read : number of lines read from standard input                 *)
(*   last_line  : the line read last, as typed                             *)
(*   trace      : the steps completed so far, in order; a season or minute *)
(*                replaced by its default is marked as such                *)
(*   ended      : how the function returned, "" while it runs              *)
(*   displayed  : the recommendations printed                              *)
(***************************************************************************)
VARIABLES session, spc, model_file, stdin_read, last_line, trace, ended, displayed

svars == <<session, spc, model_file, stdin_read, last_line, trace, ended, displayed>>

vars == <<bvars, rvars, svars, tvars>>

NoSession ==
    [home_team |-> None, away_team |-> None, season |-> 0, starting_min |-> 0,
     team_players |-> <<>>, lineup |-> <<>>, missing_position |-> 0 - 1,
     alpha_before |-> None, alpha_after |-> None, four_players |-> <<>>,
     away_players |-> <<>>, opposing_lineup |-> <<>>, candidates |-> <<>>]

SessionIdle ==
    /\ session = NoSession
    /\ spc = "idle"
    /\ model_file = FALSE
    /\ stdin_read = 0
    /\ last_line = None
    /\ trace = <<>>
    /\ ended = ""
    /\ displayed = <<>>


RankIdle ==
    /\ model = [w |-> 0]
    /\ encoders = [home_team |-> <<>>, away_team |-> <<>>, player |-> <<>>]
    /\ call = NoCall
    /\ cand_idx = 0
    /\ results = <<>>
    /\ warned = <<>>
    /\ rpc = "idle"

(***************************************************************************)
(* Spec: one run of prepare_training_data over a bounded table.            *)
(***************************************************************************)
Init == BuilderInit /\ RankIdle /\ SessionIdle /\ TrainInit
Next ==
    \/ BuilderNext /\ UNCHANGED <<rvars, svars, tvars>>
    \/ TrainNext /\ UNCHANGED <<bvars, rvars, svars>>
Spec == Init /\ [][Next]_vars

(***************************************************************************)
(* SpecRatings: create_player_ratings and create_team_ratings applied to a *)
(* bounded table whose rows may repeat a name within a lineup or hold it   *)
(* on both sides.                                                          *)
(***************************************************************************)
RatingRowPool ==
    { MkRow(1, 2007, 0, tLAL, tPHO, <<nA, nB, nC, nD, nE>>, <<nF, nG, nH, nE, nK>>, 1),
      MkRow(1, 2007, 5, tLAL, tPHO, <<nA, nB, nC, nD, nE>>, <<nF, nG, nH, nAB, nK>>, 0),
      MkRow(2, 2008, 0, tPHO, tLAL, <<nA, nA, nB, nB, nC>>, <<nF, NaN, NaN, NaN, NaN>>, 1),
      MkRow(2, 2008, 9, tPHO, tLAL, <<nA, nA, nB, nC, nD>>, <<nF, nF, NaN, NaN, NaN>>, 1),
      MkRow(3, 2008, 0, tLAL, tPHO, <<nA, nB, nC, nD, NaN>>, NoAway, 0) }

RatingTables == SeqsUpTo(RatingRowPool, MaxRatingRows)

InitRatings ==
    /\ data \in RatingTables
    /\ salt \in 0..(NumHashSeeds - 1)
    /\ npState = Seeded(0)
    /\ pyRandom \in {Seeded(k) : k \in 0..(NumPySeeds - 1)}
    /\ player_ratings = <<>>
    /\ team_ratings = <<>>
    /\ order = <<>>
    /\ rowPos = 0
    /\ leave_out_idx = 0
    /\ other_players = {}
    /\ altIter = 0
    /\ example = NoExample
    /\ base_effectiveness = 0
    /\ examples = <<>>
    /\ scoreLog = <<>>
    /\ prov = <<>>
    /\ pc = "start"
    /\ outcome = NoOutcome
    /\ RankIdle
    /\ SessionIdle
    /\ TrainIdle

NextRatings == CreateRatings /\ UNCHANGED <<rvars, svars, tvars>>

SpecRatings == InitRatings /\ [][NextRatings]_vars

(***************************************************************************)
(* main.py, predict_interactive.  Text read from standard input.           *)
(***************************************************************************)
IsSpace(c) == c \in {9, 10, 11, 12, 13, 32}

RECURSIVE LStrip(_)
LStrip(s) == IF s # <<>> /\ IsSpace(Head(s)) THEN LStrip(Tail(s)) ELSE s

RECURSIVE RStrip(_)
RStrip(s) ==
    IF s # <<>> /\ IsSpace(s[Len(s)]) THEN RStrip(SubSeq(s, 1, Len(s) - 1)) ELSE s

\* str.strip()
Strip(s) == RStrip(LStrip(s))

\* str.upper()
Upper(s) == [i \in 1..Len(s) |-> IF s[i] \in 97..122 THEN s[i] - 32 ELSE s[i]]

\* int(text): an optional sign, then digits, single underscores allowed
\* between digits; anything else is a ValueError
RECURSIVE DigitsValue(_, _, _)
DigitsValue(s, acc, prev) ==
    IF s = <<>> THEN [ok |-> prev = "digit", value |-> acc]
    ELSE IF Head(s) \in 48..57
         THEN DigitsValue(Tail(s), acc * 10 + (Head(s) - 48), "digit")
    ELSE IF Head(s) = 95 /\ prev = "digit"
         THEN DigitsValue(Tail(s), acc, "underscore")
    ELSE [ok |-> FALSE, value |-> 0]

ParseInt(text) ==
    LET s == Strip(text)
    IN  IF s = <<>> THEN [ok |-> FALSE, value |-> 0]
        ELSE IF Head(s) = 45
             THEN LET r == DigitsValue(Tail(s), 0, "start")
                  IN  [ok |-> r.ok, value |-> 0 - r.value]
        ELSE IF Head(s) = 43 THEN DigitsValue(Tail(s), 0, "start")
        ELSE DigitsValue(s, 0, "start")

\* the text lines a session is fed
HomeLines == {<<108, 97, 108>>, <<88, 89, 90>>}
AwayLines == {<<32, 112, 104, 111, 32>>, <<88, 89, 90>>}
SeasonLines == {<<50, 48, 48, 56>>, <<32, 50, 48, 48, 55>>, <<49, 57, 57, 57>>, <<97, 98, 99>>, <<>>}
MinuteLines == {<<52, 56>>, <<52, 57>>, <<45, 49>>, <<120>>, <<32, 52, 56, 32>>}
LineupLines == {<<63>>, <<>>, <<66>>, <<32, 68>>}
OpponentLines == {<<32, 70>>, <<88>>}

\* the table load_data() returns in a session
SessionTable ==
    << MkRow(1, 2007, 0, tPHO, tLAL, <<nF, nG, nH, nE, nK>>, <<nA, nB, nC, nD, nH>>, 1),
       MkRow(2, 2008, 0, tLAL, tPHO, <<nA, nAB, nB, nC, nD>>, <<nF, nG, nH, nE, nK>>, 1),
       MkRow(2, 2008, 6, tLAL, tPHO, <<nA, nB, nC, nD, nE>>, <<nF, nG, nH, nE, nK>>, 1),
       MkRow(3, 2008, 0, tPHO, tLAL, <<nF, NaN, NaN, NaN, NaN>>, <<nA, nB, nC, nD, nE>>, 1) >>

\* lines 89 and 93
TeamsOf(df) == LabelEncoderFit({df[i].home_team : i \in 1..Len(df)})
SeasonsOf(df) == {df[i].season : i \in 1..Len(df)}
MaxSeason(df) == SetMax(SeasonsOf(df), 0)

\* feature_engineering.get_player_candidates
get_player_candidates(df, team, season) ==
    LabelEncoderFit(UNION {Range(HomePlayers(df[i])) :
        i \in {k \in 1..Len(df) : df[k].home_team = team /\ df[k].season = season}})

\* lines 106-113
SeasonFrom_NoMembershipTest(text, df) ==
    LET r == ParseInt(text) IN IF r.ok THEN r.value ELSE MaxSeason(df)
SeasonFrom(text, df) ==
    LET r == ParseInt(text)
    IN  IF r.ok /\ r.value \in SeasonsOf(df) THEN r.value ELSE MaxSeason(df)

MinMinute == 0
MaxMinute == 48

\* whether lines 106-113 and 116-123 keep the number typed
SeasonKept(text, df) == ParseInt(text).ok /\ ParseInt(text).value \in SeasonsOf(df)
MinuteKept(text) ==
    ParseInt(text).ok /\ ~(ParseInt(text).value < MinMinute \/ ParseInt(text).value > MaxMinute)

\* lines 116-123
MinuteFrom(text) ==
    LET r == ParseInt(text)
    IN  IF r.ok /\ ~(r.value < MinMinute \/ r.value > MaxMinute) THEN r.value ELSE 0

\* lines 146-161
MissingPosition(lineup) == (CHOOSE i \in 1..Len(lineup) :
                               lineup[i] = QM /\ \A j \in 1..(i - 1) : lineup[j] # QM) - 1

AlphaBefore(lineup) ==
    LET mp == MissingPosition(lineup)
    IN  IF mp > 0 THEN lineup[mp] ELSE None

\* an upper bound that is always the entry right after the first '?'
AlphaAfter_Adjacent(lineup) ==
    LET mp == MissingPosition(lineup)
    IN  IF mp < 4 THEN lineup[mp + 2] ELSE None

AlphaAfter(lineup) ==
    LET mp == MissingPosition(lineup)
        later == {j \in (mp + 1)..4 : lineup[j + 1] # QM}
    IN  IF mp < 4
        THEN IF lineup[mp + 2] = QM /\ later # {}
             THEN lineup[SetMin(later, 0) + 1]
             ELSE lineup[mp + 2]
        ELSE None

\* "if alpha_before:" and "if alpha_after:"
Truthy(text) == text # None /\ text # EmptyStr

\* line 164
FourPlayers(lineup) == SelectSeq(lineup, LAMBDA p : p # QM)

\* lines 195-200
FilterCandidates(team_players, four_players, alpha_before, alpha_after) ==
    LET c0 == SelectSeq(team_players, LAMBDA p : p \notin Range(four_players))
        c1 == IF Truthy(alpha_before)
              THEN SelectSeq(c0, LAMBDA p : StrLess(alpha_before, p)) ELSE c0
    IN  IF Truthy(alpha_after)
        THEN SelectSeq(c1, LAMBDA p : StrLess(p, alpha_after)) ELSE c1

(***************************************************************************)
(* SpecRank: one call of find_optimal_fifth_player.  The encoders are      *)
(* those of a training run that saw the players A..H and the teams LAL and *)
(* PHO; the candidate list is duplicate-free and sorted, as the only call  *)
(* (main.py:195-213) builds it.                                            *)
(***************************************************************************)
tXYZ == <<88, 89, 90>>

TrainedEncoders ==
    [home_team |-> LabelEncoderFit({tLAL, tPHO}),
     away_team |-> LabelEncoderFit({tLAL, tPHO}),
     player |-> LabelEncoderFit({nA, nB, nC, nD, nE, nF, nG, nH})]

RankCalls ==
    [four_players : {<<nA, nB, nC, nD>>, <<nA, nB, nC>>, <<nA, nB, nC, nK>>},
     home_team : {tLAL, tXYZ},
     away_team : {tPHO},
     opposing_lineup : {<<nF, nG, nH, nF, nG>>, <<nF, nG, nK, nF, nG>>},
     candidates : {LabelEncoderFit(S) : S \in SUBSET {nAB, nE, nF, nG, nH}},
     season : {2007, 0},
     starting_min : {0, 48}]

RankInit ==
    /\ model \in {[w |-> k] : k \in 0..(NumModels - 1)}
    /\ encoders = TrainedEncoders
    /\ call \in RankCalls
    /\ cand_idx = 1
    /\ results = <<>>
    /\ warned = <<>>
    /\ rpc = "loop"

BuilderIdle ==
    /\ data = <<>>
    /\ salt = 0
    /\ npState = Seeded(0)
    /\ pyRandom = Seeded(0)
    /\ player_ratings = <<>>
    /\ team_ratings = <<>>
    /\ order = <<>>
    /\ rowPos = 0
    /\ leave_out_idx = 0
    /\ other_players = {}
    /\ altIter = 0
    /\ example = NoExample
    /\ base_effectiveness = 0
    /\ examples = <<>>
    /\ scoreLog = <<>>
    /\ prov = <<>>
    /\ pc = "idle"
    /\ outcome = NoOutcome

InitRank == BuilderIdle /\ RankInit /\ SessionIdle /\ TrainIdle
NextRank == RankNext /\ UNCHANGED <<bvars, svars, tvars>>
SpecRank == InitRank /\ [][NextRank]_vars

(***************************************************************************)
(* SpecSession: one run of predict_interactive over SessionTable, with the *)
(* artifact of a training run that saw the players A..H.                   *)
(***************************************************************************)
\* test_script.generate_input_string: the kinds of the lines it writes
HarnessLines ==
    <<"home", "away", "season", "minute">>
        \o [i \in 1..5 |-> "player"] \o [i \in 1..5 |-> "opp"]

LineupSlots == 5
OpponentSlots_Four == 5 - 1
OpponentSlots == 5

Read(line, step) ==
    /\ last_line' = line
    /\ stdin_read' = stdin_read + 1
    /\ trace' = Append(trace, step)

Return(how) ==
    /\ ended' = how
    /\ spc' = "end"

\* lines 81-93; a missing model file is handled at lines 227-228
LoadModel ==
    /\ spc = "load"
    /\ IF model_file THEN spc' = "home" /\ UNCHANGED ended
                     ELSE Return("model file not found")
    /\ UNCHANGED <<session, model_file, stdin_read, last_line, trace, displayed, rvars>>

\* lines 97-99
ReadHomeTeam ==
    /\ spc = "home"
    /\ \E line \in HomeLines :
          /\ Read(line, "home")
          /\ session' = [session EXCEPT !.home_team = Upper(Strip(line))]
    /\ spc' = "away"
    /\ UNCHANGED <<model_file, ended, displayed, rvars>>

\* lines 101-103
ReadAwayTeam ==
    /\ spc = "away"
    /\ \E line \in AwayLines :
          /\ Read(line, "away")
          /\ session' = [session EXCEPT !.away_team = Upper(Strip(line))]
    /\ spc' = "season"
    /\ UNCHANGED <<model_file, ended, displayed, rvars>>

\* lines 105-113
ReadSeason ==
    /\ spc = "season"
    /\ \E line \in SeasonLines :
          /\ Read(line, IF SeasonKept(line, data) THEN "season" ELSE "season_default")
          /\ session' = [session EXCEPT !.season = SeasonFrom(line, data)]
    /\ spc' = "minute"
    /\ UNCHANGED <<model_file, ended, displayed, rvars>>

\* lines 115-123
ReadMinute ==
    /\ spc = "minute"
    /\ \E line \in MinuteLines :
          /\ Read(line, IF MinuteKept(line) THEN "minute" ELSE "minute_default")
          /\ session' = [session EXCEPT !.starting_min = MinuteFrom(line)]
    /\ spc' = "roster"
    /\ UNCHANGED <<model_file, ended, displayed, rvars>>

\* lines 126-131
LookupRoster ==
    /\ spc = "roster"
    /\ LET team_players == get_player_candidates(data, session.home_team, session.season)
       IN  /\ session' = [session EXCEPT !.team_players = team_players]
           /\ IF team_players # <<>> THEN spc' = "lineup" /\ UNCHANGED ended
                                     ELSE Return("no players found for home team")
    /\ trace' = Append(trace, "roster")
    /\ UNCHANGED <<model_file, stdin_read, last_line, displayed, rvars>>

\* lines 137-139
ReadPlayer ==
    /\ spc = "lineup"
    /\ \E line \in LineupLines :
          /\ Read(line, "player")
          /\ session' = [session EXCEPT !.lineup = Append(@, Strip(line))]
    /\ spc' = IF Len(session.lineup) + 1 = LineupSlots THEN "bounds" ELSE "lineup"
    /\ UNCHANGED <<model_file, ended, displayed, rvars>>

\* lines 141-172
ComputeBounds ==
    /\ spc = "bounds"
    /\ IF QM \notin Range(session.lineup)
       THEN /\ Return("no missing player")
            /\ UNCHANGED <<session, trace>>
       ELSE /\ session' = [session EXCEPT
                   !.missing_position = MissingPosition(session.lineup),
                   !.alpha_before = AlphaBefore(session.lineup),
                   !.alpha_after = AlphaAfter(session.lineup),
                   !.four_players = FourPlayers(session.lineup)]
            /\ trace' = Append(trace, "bounds")
            /\ spc' = "away_roster"
            /\ UNCHANGED ended
    /\ UNCHANGED <<model_file, stdin_read, last_line, displayed, rvars>>

\* lines 175-183
LookupAwayRoster ==
    /\ spc = "away_roster"
    /\ LET players == get_player_candidates(data, session.away_team, session.season)
       IN  /\ session' = [session EXCEPT !.away_players = players]
           /\ IF players # <<>> THEN spc' = "opponents" /\ UNCHANGED ended
                                ELSE Return("no players found for away team")
    /\ trace' = Append(trace, "away_roster")
    /\ UNCHANGED <<model_file, stdin_read, last_line, displayed, rvars>>

Retries == stdin_read - 4 - LineupSlots - Len(session.opposing_lineup)

\* a prompt that appends whatever is typed
ReadOpponent_AcceptsAny ==
    /\ spc = "opponents"
    /\ \E line \in OpponentLines :
          /\ Read(line, "opp")
          /\ session' = [session EXCEPT !.opposing_lineup = Append(@, Strip(line))]
          /\ spc' = IF Len(session.opposing_lineup) + 1 = OpponentSlots
                    THEN "filter" ELSE "opponents"
    /\ UNCHANGED <<model_file, ended, displayed, rvars>>

\* lines 185-192: one prompt of the loop
ReadOpponent ==
    /\ spc = "opponents"
    /\ \E line \in OpponentLines :
          LET player == Strip(line)
          IN  IF player \in Range(session.away_players)
              THEN /\ Read(line, "opp")
                   /\ session' = [session EXCEPT !.opposing_lineup = Append(@, player)]
                   /\ spc' = IF Len(session.opposing_lineup) + 1 = OpponentSlots
                             THEN "filter" ELSE "opponents"
              ELSE /\ Retries < MaxReprompts
                   /\ last_line' = line
                   /\ stdin_read' = stdin_read + 1
                   /\ UNCHANGED <<session, spc, trace>>
    /\ UNCHANGED <<model_file, ended, displayed, rvars>>

\* lines 195-204
FilterStep ==
    /\ spc = "filter"
    /\ LET candidates == FilterCandidates(session.team_players, session.four_players,
                                          session.alpha_before, session.alpha_after)
       IN  /\ session' = [session EXCEPT !.candidates = candidates]
           /\ IF candidates # <<>> THEN spc' = "predict" /\ UNCHANGED ended
                                   ELSE Return("no candidates")
    /\ trace' = Append(trace, "filter")
    /\ UNCHANGED <<model_file, stdin_read, last_line, displayed, rvars>>

\* lines 209-214: the call of find_optimal_fifth_player
CallPredict ==
    /\ spc = "predict"
    /\ call' = [four_players |-> session.four_players,
                home_team |-> session.home_team,
                away_team |-> session.away_team,
                opposing_lineup |-> session.opposing_lineup,
                candidates |-> session.candidates,
                season |-> session.season,
                starting_min |-> session.starting_min]
    /\ cand_idx' = 1
    /\ results' = <<>>
    /\ warned' = <<>>
    /\ rpc' = "loop"
    /\ spc' = "predicting"
    /\ trace' = Append(trace, "predict")
    /\ UNCHANGED <<model, encoders, session, model_file, stdin_read, last_line, ended, displayed>>

\* lines 216-222
Display ==
    /\ spc = "predicting"
    /\ rpc = "returned"
    /\ IF results # <<>>
       THEN /\ displayed' = SubSeq(results, 1, Min2(5, Len(results)))
            /\ Return("recommended")
       ELSE /\ Return("no valid recommendations")
            /\ UNCHANGED displayed
    /\ trace' = Append(trace, "display")
    /\ UNCHANGED <<session, model_file, stdin_read, last_line, rvars>>

\* input() at the end of standard input raises EOFError, handled at
\* lines 229-230
EndOfInput ==
    /\ spc \in {"home", "away", "season", "minute", "lineup", "opponents"}
    /\ Return("error")
    /\ UNCHANGED <<session, model_file, stdin_read, last_line, trace, displayed, rvars>>

SessionInit ==
    /\ session = NoSession
    /\ spc = "load"
    /\ model_file \in BOOLEAN
    /\ stdin_read = 0
    /\ last_line = None
    /\ trace = <<>>
    /\ ended = ""
    /\ displayed = <<>>

InitSession ==
    /\ data = SessionTable
    /\ salt = 0
    /\ npState = Seeded(0)
    /\ pyRandom = Seeded(0)
    /\ player_ratings = <<>>
    /\ team_ratings = <<>>
    /\ order = <<>>
    /\ rowPos = 0
    /\ leave_out_idx = 0
    /\ other_players = {}
    /\ altIter = 0
    /\ example = NoExample
    /\ base_effectiveness = 0
    /\ examples = <<>>
    /\ scoreLog = <<>>
    /\ prov = <<>>
    /\ pc = "idle"
    /\ outcome = NoOutcome
    /\ model = [w |-> 0]
    /\ encoders = TrainedEncoders
    /\ call = NoCall
    /\ cand_idx = 0
    /\ results = <<>>
    /\ warned = <<>>
    /\ rpc = "idle"
    /\ SessionInit
    /\ TrainIdle

NextSession ==
    \/ LoadModel /\ UNCHANGED <<bvars, tvars>>
    \/ ReadHomeTeam /\ UNCHANGED <<bvars, tvars>>
    \/ ReadAwayTeam /\ UNCHANGED <<bvars, tvars>>
    \/ ReadSeason /\ UNCHANGED <<bvars, tvars>>
    \/ ReadMinute /\ UNCHANGED <<bvars, tvars>>
    \/ LookupRoster /\ UNCHANGED <<bvars, tvars>>
    \/ ReadPlayer /\ UNCHANGED <<bvars, tvars>>
    \/ ComputeBounds /\ UNCHANGED <<bvars, tvars>>
    \/ LookupAwayRoster /\ UNCHANGED <<bvars, tvars>>
    \/ ReadOpponent /\ UNCHANGED <<bvars, tvars>>
    \/ FilterStep /\ UNCHANGED <<bvars, tvars>>
    \/ CallPredict /\ UNCHANGED <<bvars, tvars>>
    \/ ScoreCandidate /\ UNCHANGED <<bvars, svars, tvars>>
    \/ SortAndReturn /\ UNCHANGED <<bvars, svars, tvars>>
    \/ Display /\ UNCHANGED <<bvars, tvars>>
    \/ EndOfInput /\ UNCHANGED <<bvars, tvars>>

SpecSession == InitSession /\ [][NextSession]_vars

(***************************************************************************)
(* Properties of prepare_training_data.                                    *)
(***************************************************************************)
Roster == AllPlayers(data)
RowAt(k) == data[order[k]]
FullRow(k) == Len(HomePlayers(RowAt(k))) = 5
FullRows == {k \in 1..Len(order) : FullRow(k)}
ProvCount(k, idx, kind) ==
    Cardinality({e \in 1..Len(prov) :
                    prov[e].pos = k /\ prov[e].idx = idx /\ prov[e].kind = kind})
PoolSize(k) == Cardinality(Roster \ Range(HomePlayers(RowAt(k))))
Finished == pc = "done"

\* C1 as stated: the table built from a corpus has
\* (number of rows with 5 resolved home players) x 5 x (1 + min(2, |roster| - 5))
\* examples.
C1_CountAsStated ==
    (Finished /\ outcome.kind = "return") =>
        Len(examples) =
            Cardinality(FullRows) * 5 * (1 + Min2(2, Cardinality(Roster) - 5))

\* C1 amended: every row with 5 resolved home players yields one real example
\* per held-out position and min(2, pool) alternatives per held-out position,
\* where pool = roster minus the distinct names of the row's home lineup; the
\* total is the sum of 5 x (1 + min(2, pool)) over those rows.
C1_ExamplesPerRow ==
    Finished =>
        /\ \A k \in FullRows : \A idx \in 0..4 :
              /\ ProvCount(k, idx, "real") = 1
              /\ ProvCount(k, idx, "alt") = Min2(2, PoolSize(k))
              /\ ProvCount(k, idx, "alt") <= 2
        /\ Len(examples) =
              SumSeq([k \in 1..Len(order) |->
                         IF FullRow(k) THEN 5 * (1 + Min2(2, PoolSize(k))) ELSE 0])
        /\ Len(prov) = Len(examples)

\* C1 witness: a finished run over a table with an accepted row whose pool
\* holds a single player, so that fewer than 10 alternatives were produced.
C1_Witness ==
    /\ Finished
    /\ \E k \in FullRows :
          /\ PoolSize(k) = 1
          /\ \A idx \in 0..4 : ProvCount(k, idx, "alt") = 1
    /\ Len(examples) > 10

\* The alternatives drawn so far for the current held-out choice.
DrawnAlts == {examples[Len(examples) - j].fifth_player : j \in 0..(altIter - 1)}

\* C2 as stated: the alternatives are drawn from all known players minus the
\* 4 remaining players.
C2_PoolAsStated ==
    (pc = "alt" /\ altIter = 0) =>
        other_players = Roster \ Range(remaining_players)

\* C2 amended: the alternatives of one held-out choice are drawn without
\* replacement from all known players minus the 5 home players of the row
\* (the held-out player included): they are pairwise distinct, none is a
\* home player of the row, and the set drawn from is exactly the known
\* players outside the home lineup that were not drawn yet.
C2_PoolExcludesHomeFive ==
    pc = "alt" =>
        /\ Cardinality(DrawnAlts) = altIter
        /\ DrawnAlts \cap Range(home_players) = {}
        /\ DrawnAlts \subseteq Roster
        /\ other_players = (Roster \ Range(home_players)) \ DrawnAlts

\* C2 witness: two alternatives were drawn and a known player is still left.
C2_Witness ==
    /\ pc = "alt"
    /\ altIter = 2
    /\ other_players # {}
    /\ Cardinality(Range(home_players)) = 5

\* C3: the label of a real example is score(5 players) - 0.8 x score(4
\* remaining), the label of an alternative is score(4 remaining + alternative)
\* minus the base of the same held-out choice, scored once; the examples of
\* one held-out choice agree on everything but candidate and label.
SameContext(a, b) ==
    /\ a.game_id = b.game_id
    /\ a.home_team = b.home_team
    /\ a.away_team = b.away_team
    /\ a.season = b.season
    /\ a.starting_min = b.starting_min
    /\ <<a.player_1, a.player_2, a.player_3, a.player_4>>
           = <<b.player_1, b.player_2, b.player_3, b.player_4>>
    /\ a.away_player = b.away_player

Known4(e) == <<e.player_1, e.player_2, e.player_3, e.player_4>>

C3_Labels ==
    Finished =>
    /\ Len(prov) = Len(examples)
    /\ \A e \in 1..Len(examples) :
          LET ex == examples[e]
              pv == prov[e]
          IN  /\ pv.score \in 1..Len(scoreLog)
              /\ pv.base \in 1..Len(scoreLog)
              /\ scoreLog[pv.base].players = Known4(ex)
              /\ scoreLog[pv.score].players =
                     IF pv.kind = "real"
                     THEN HomePlayers(RowAt(pv.pos))
                     ELSE Append(Known4(ex), ex.fifth_player)
              /\ ex.effectiveness =
                     5 * scoreLog[pv.score].value - 4 * scoreLog[pv.base].value
              /\ \A c \in {pv.score, pv.base} :
                     scoreLog[c].value =
                         calculate_lineup_effectiveness(
                             scoreLog[c].players, player_ratings, ex.home_team,
                             team_ratings, ex.away_team, ex.away_player,
                             [seed |-> npState.seed, draws |-> c - 1])
    /\ \A e, f \in 1..Len(examples) :
          (prov[e].pos = prov[f].pos /\ prov[e].idx = prov[f].idx) =>
              /\ prov[e].base = prov[f].base
              /\ SameContext(examples[e], examples[f])
    \* one scorer call per example plus one base call per held-out choice
    /\ Len(scoreLog) =
          Len(examples) + Cardinality({e \in 1..Len(prov) : prov[e].kind = "real"})

\* C3 witness: a finished run whose last held-out choice has two alternatives
\* with different labels.
C3_Witness ==
    /\ Finished
    /\ Len(examples) >= 3
    /\ prov[Len(prov)].kind = "alt"
    /\ prov[Len(prov) - 1].kind = "alt"
    /\ examples[Len(examples)].effectiveness # examples[Len(examples) - 1].effectiveness

\* C4 as stated: a skipped row changes nothing in the examples of the other
\* rows, so the candidate pool of an accepted row is the one the table
\* without the skipped rows gives.
AcceptedOnly == SelectSeq(data, LAMBDA r : Len(HomePlayers(r)) = 5)

C4_NoInfluenceAsStated ==
    (pc = "alt" /\ altIter = 0) =>
        other_players = AllPlayers(AcceptedOnly) \ Range(home_players)

\* C4 amended: a row with fewer than 5 resolved home players is skipped
\* silently: the step leaves the examples built so far and the outcome as
\* they are and moves to the next row, and no example is built from it; its
\* players stay in the roster of the full table.
SkipStep == pc = "row" /\ rowPos <= Len(order) /\ Len(home_players) # 5

C4_SkipIsSilent ==
    /\ [](\A e \in 1..Len(prov) : FullRow(prov[e].pos))
    /\ [][SkipStep =>
            /\ examples' = examples
            /\ outcome' = outcome
            /\ pc' = "row"
            /\ rowPos' = rowPos + 1]_vars

\* C4 witness: the run has passed a short row and holds examples of another.
C4_Witness ==
    /\ pc = "row"
    /\ rowPos > 1
    /\ \E k \in 1..(rowPos - 1) : ~FullRow(k)
    /\ examples # <<>>
    /\ outcome = NoOutcome

\* C5: when no row yields an example the call does not return an empty
\* table: it raises ValueError with its message.
C5_EmptyIsFatal ==
    Finished =>
        /\ examples = <<>> =>
              outcome = [kind |-> "raise", exc |-> "ValueError", msg |-> EmptyMsg]
        /\ outcome.kind = "return" => outcome.rows > 0
        /\ outcome.kind \in {"raise", "return"}

\* C5 witness: a non-empty table of short rows only ended in the error.
C5_Witness ==
    /\ Finished
    /\ Len(data) > 0
    /\ examples = <<>>
    /\ outcome.kind = "raise"
(***************************************************************************)
(* Properties of find_optimal_fifth_player.                                *)
(***************************************************************************)
Returned == rpc = "returned"
Ranked == {results[i][1] : i \in 1..Len(results)}
TimesRanked(c) == Cardinality({i \in 1..Len(results) : results[i][1] = c})
InCodebook(name) == name \in Range(encoders.player)
RestEncodes ==
    /\ call.home_team \in Range(encoders.home_team)
    /\ call.away_team \in Range(encoders.away_team)
    /\ \A p \in Range(call.four_players) \cup Range(call.opposing_lineup) : InCodebook(p)
    /\ Len(call.four_players) >= 4
NonIncreasing ==
    \A i, j \in 1..Len(results) : i < j => results[i][2] >= results[j][2]

\* C6: a candidate absent from the player codebook is left out of the
\* ranking with a printed warning and the loop goes on: every candidate is
\* either scored or warned about, every candidate whose encoding succeeds is
\* ranked exactly once, and the ranking is sorted descending by score.
C6_UnknownCandidateSkipped ==
    /\ rpc \in {"idle", "loop", "returned"}
    /\ rpc = "loop" => Len(results) + Len(warned) = cand_idx - 1
    /\ Returned =>
          /\ Len(results) + Len(warned) = Len(call.candidates)
          /\ \A c \in Range(call.candidates) :
                /\ ~InCodebook(c) => (c \notin Ranked /\ c \in Range(warned))
                /\ (InCodebook(c) /\ RestEncodes) => TimesRanked(c) = 1
          /\ NonIncreasing

\* C6 witness: a call returned a ranking of two or more candidates and left
\* out an unknown one that stood before them in the list.
C6_Witness ==
    /\ Returned
    /\ Len(results) >= 2
    /\ warned # <<>>
    /\ ~InCodebook(call.candidates[1])
    /\ results[1][2] > results[Len(results)][2]

\* C7: the ranking is ordered by predicted effectiveness non-increasing and
\* candidates with equal predictions keep the order of the candidate list.
PosInCandidates(c) == CHOOSE i \in 1..Len(call.candidates) : call.candidates[i] = c

C7_SortedStable ==
    Returned =>
        \A i, j \in 1..Len(results) :
            i < j =>
                /\ results[i][2] >= results[j][2]
                /\ results[i][2] = results[j][2] =>
                      PosInCandidates(results[i][1]) < PosInCandidates(results[j][1])

\* C7 witness: a returned ranking with a tie and with a candidate moved ahead
\* of one that was scored before it.
C7_Witness ==
    /\ Returned
    /\ \E i \in 1..(Len(results) - 1) : results[i][2] = results[i + 1][2]
    /\ \E i \in 1..(Len(results) - 1) :
          PosInCandidates(results[i][1]) > PosInCandidates(results[i + 1][1])

(***************************************************************************)
(* The text predict_interactive prints for a prediction (main.py:208-222)  *)
(* and what test_script.py reads from it (test_script.py:70-83).  The      *)
(* other lines of the output are the fixed prompts and messages of lines   *)
(* 79-204, which the harness does not look for either.                     *)
(***************************************************************************)
RECURSIVE DigitsOf(_)
DigitsOf(n) == IF n < 10 THEN <<48 + n>> ELSE DigitsOf(n \div 10) \o <<48 + (n % 10)>>

\* str(n) of an integer
IntText(n) == IF n < 0 THEN <<45>> \o DigitsOf(0 - n) ELSE DigitsOf(n)

\* f"{score:.4f}" of a value held in units of 1/Scale
Fixed4(score) ==
    LET a == IF score < 0 THEN 0 - score ELSE score
        frac == (a % Scale) * (10000 \div Scale)
        pad == [i \in 1..(4 - Len(DigitsOf(frac))) |-> 48]
    IN  (IF score < 0 THEN <<45>> ELSE <<>>) \o DigitsOf(a \div Scale) \o <<46>> \o pad
            \o DigitsOf(frac)

\* line 208
PredictingLine(c, missing_position) ==
    <<80, 114, 101, 100, 105, 99, 116, 105, 110, 103, 32, 111, 112, 116, 105, 109, 97, 108, 32, 112, 108, 97, 121, 101, 114, 32, 102, 111, 114, 32>> \o c.home_team \o <<32, 97, 116, 32, 112, 111, 115, 105, 116, 105, 111, 110, 32>>
        \o IntText(missing_position + 1) \o <<32, 97, 116, 32, 109, 105, 110, 117, 116, 101, 32>> \o IntText(c.starting_min)
        \o <<32, 105, 110, 32>> \o IntText(c.season) \o <<46, 46, 46>>

\* line 218
TopHeader == <<84, 111, 112, 32, 53, 32, 114, 101, 99, 111, 109, 109, 101, 110, 100, 101, 100, 32, 112, 108, 97, 121, 101, 114, 115, 58>>

\* line 220
RecommendationLine(i, player, score) ==
    IntText(i) \o <<46, 32>> \o player \o <<32, 40, 101, 102, 102, 101, 99, 116, 105, 118, 101, 110, 101, 115, 115, 32, 115, 99, 111, 114, 101, 58, 32>> \o Fixed4(score) \o <<41>>

\* lines 208-222: the lines printed for a prediction that returned results
PredictionOutput(c, missing_position, shown) ==
    <<PredictingLine(c, missing_position), TopHeader>>
        \o [i \in 1..Len(shown) |-> RecommendationLine(i, shown[i][1], shown[i][2])]

\* test_script.py:72
HarnessMarker == <<80, 114, 101, 100, 105, 99, 116, 101, 100, 32, 53, 116, 104, 32, 80, 108, 97, 121, 101, 114, 58>>

\* the positions at which sub occurs in text
Occurrences(sub, text) ==
    {k \in 1..(Len(text) - Len(sub) + 1) : SubSeq(text, k, k + Len(sub) - 1) = sub}

\* test_script.py:73: line.split(marker)[-1].split("(")[0].strip()
AfterMarker(line) ==
    LET last == SetMax(Occurrences(HarnessMarker, line), 0)
        rest == SubSeq(line, last + Len(HarnessMarker), Len(line))
        paren == {k \in 1..Len(rest) : rest[k] = 40}
    IN  Strip(IF paren = {} THEN rest ELSE SubSeq(rest, 1, SetMin(paren, 0) - 1))

\* test_script.py:70-74: the predicted player the harness reads, or None
HarnessPredicted(lines) ==
    LET hits == {i \in 1..Len(lines) : Occurrences(HarnessMarker, lines[i]) # {}}
    IN  IF hits = {} THEN None ELSE AfterMarker(lines[SetMin(hits, 0)])

\* test_script.py:78: if predicted_player
HarnessCountsValid(lines) == HarnessPredicted(lines) \notin {None, EmptyStr}


(***************************************************************************)
(* Claims about predict_interactive, checked under SpecSession.            *)
(***************************************************************************)
Did(step) == \E i \in 1..Len(trace) : trace[i] = step
Times(step) == Cardinality({i \in 1..Len(trace) : trace[i] = step})
Predicted == Did("predict")

\* the names in the home slots of the rows of a team and season
RosterOf(team, season) ==
    {data[i].home[k] : i \in {r \in 1..Len(data) : data[r].home_team = team
                                                   /\ data[r].season = season},
                       k \in 1..5} \ {NaN}

FirstUnknown(l) == CHOOSE q \in 1..Len(l) : l[q] = QM /\ \A j \in 1..(q - 1) : l[j] # QM
KnownNames(l) == {l[i] : i \in 1..Len(l)} \ {QM}
StrictlySorted(seq) == \A i \in 1..(Len(seq) - 1) : StrLess(seq[i], seq[i + 1])

\* C8 as stated: the candidates passed to prediction are the roster names
\* that are not known lineup players and lie strictly between the entries
\* adjacent to the '?' slot (no lower bound when '?' is first, no upper
\* bound when it is last).
C8_AdjacentBoundsAsStated ==
    Predicted =>
        LET l == session.lineup
            q == FirstUnknown(l)
        IN  Range(call.candidates) =
                {p \in RosterOf(session.home_team, session.season) :
                    /\ p \notin KnownNames(l)
                    /\ q > 1 => StrLess(l[q - 1], p)
                    /\ q < 5 => StrLess(p, l[q + 1])}

\* the upper bound the code uses: the entry after the first '?', or, when
\* that is '?' too, the first later entry that is not '?' ('?' itself when
\* there is none)
UpperEntry(l) ==
    LET q == FirstUnknown(l)
        rest == {j \in (q + 1)..5 : l[j] # QM}
    IN  IF rest = {} THEN QM
        ELSE l[CHOOSE j \in rest : \A k \in rest : j <= k]

\* C8: once the candidates are filtered they are, in roster order, the names
\* of the home team's season roster that are not among the entered names and
\* lie strictly above the entry before the first '?' (if '?' is not first)
\* and strictly below the upper entry (if '?' is not last), where an empty
\* entry bounds nothing; the prediction is called with exactly this list.
C8_BoundsAndCandidates ==
    /\ Did("filter") =>
          LET l == session.lineup
              q == FirstUnknown(l)
          IN  /\ session.missing_position = q - 1
              /\ session.alpha_before = (IF q > 1 THEN l[q - 1] ELSE None)
              /\ session.alpha_after = (IF q < 5 THEN UpperEntry(l) ELSE None)
              /\ StrictlySorted(session.candidates)
              /\ Range(session.candidates) =
                    {p \in RosterOf(session.home_team, session.season) :
                        /\ p \notin KnownNames(l)
                        /\ (q > 1 /\ l[q - 1] # EmptyStr) => StrLess(l[q - 1], p)
                        /\ (q < 5 /\ UpperEntry(l) # EmptyStr) => StrLess(p, UpperEntry(l))}
    /\ Predicted => call.candidates = session.candidates /\ call.candidates # <<>>

\* a prediction whose lineup is "B, ?, (empty), D, D": the lower bound B
\* removes roster names, the empty upper neighbour bounds nothing
C8_Witness ==
    /\ Predicted
    /\ session.lineup = <<nB, QM, EmptyStr, nD, nD>>
    /\ nA \in RosterOf(session.home_team, session.season)
    /\ nA \notin Range(call.candidates)
    /\ nE \in Range(call.candidates)

\* the order of the steps of the documented flow
StepRank(step) ==
    CASE step = "home" -> 1
      [] step = "away" -> 2
      [] step \in {"season", "season_default"} -> 3
      [] step \in {"minute", "minute_default"} -> 4
      [] step = "roster" -> 5
      [] step = "player" -> 6
      [] step = "bounds" -> 7
      [] step = "away_roster" -> 8
      [] step = "opp" -> 9
      [] step = "filter" -> 10
      [] step = "predict" -> 11
      [] step = "display" -> 12

Repeatable == {"player", "opp"}

\* the kind of each line test_script.generate_input_string writes
LineKind(step) ==
    CASE step \in {"season", "season_default"} -> "season"
      [] step \in {"minute", "minute_default"} -> "minute"
      [] OTHER -> step

AcceptedReads ==
    LET reads == SelectSeq(trace, LAMBDA st :
                    st \in {"home", "away", "season", "season_default", "minute",
                            "minute_default", "player", "opp"})
    IN  [i \in 1..Len(reads) |-> LineKind(reads[i])]

IsPrefix(a, b) == Len(a) <= Len(b) /\ a = SubSeq(b, 1, Len(a))

Handled == {"model file not found", "no players found for home team", "no missing player",
            "no players found for away team", "no candidates", "recommended",
            "no valid recommendations", "error"}

\* C10: the season kept after the season prompt is the number typed when the
\* line is an integer that is a season of the data and the most recent
\* season of the data otherwise; the minute kept after the minute prompt is
\* the number typed when the line is an integer in 0..48 and 0 otherwise;
\* the session goes on after either; from then on, and whenever the
\* prediction is called, the season is a season of the data and the minute
\* is in 0..48; a session only ends by one of its handled returns.
C10_Defaults ==
    /\ spc = "minute" =>
          session.season = (IF ParseInt(last_line).ok
                               /\ ParseInt(last_line).value \in {data[i].season : i \in 1..Len(data)}
                            THEN ParseInt(last_line).value
                            ELSE SetMax({data[i].season : i \in 1..Len(data)}, 0))
    /\ spc = "roster" =>
          session.starting_min = (IF ParseInt(last_line).ok
                                     /\ ParseInt(last_line).value >= 0
                                     /\ ParseInt(last_line).value <= 48
                                  THEN ParseInt(last_line).value
                                  ELSE 0)
    /\ (Did("season") \/ Did("season_default")) =>
          session.season \in {data[i].season : i \in 1..Len(data)}
    /\ (Did("minute") \/ Did("minute_default")) =>
          session.starting_min >= 0 /\ session.starting_min <= 48
    /\ Predicted =>
          /\ call.season \in {data[i].season : i \in 1..Len(data)}
          /\ call.starting_min >= 0 /\ call.starting_min <= 48
    /\ ended # "" => ended \in Handled /\ spc = "end"

\* a prediction reached after both the season and the minute were replaced
\* by their defaults
C10_Witness ==
    /\ Predicted
    /\ Did("season_default")
    /\ Did("minute_default")
    /\ call.season = 2008
    /\ call.starting_min = 0

\* a step that reads one line at an opponent prompt
OpponentPrompt == spc = "opponents" /\ stdin_read' = stdin_read + 1

\* C11: every name in the opponent lineup is in the away team's roster for
\* the season and the lineup never exceeds 5 names; a line whose stripped
\* text is not in that roster appends nothing and leaves the session at the
\* same slot, a line in the roster appends exactly that name; the prediction
\* is called only with an opponent lineup of exactly 5 roster names.
C11_OpponentsValidated ==
    /\ [](/\ Len(session.opposing_lineup) <= 5
          /\ \A i \in 1..Len(session.opposing_lineup) :
                session.opposing_lineup[i] \in RosterOf(session.away_team, session.season)
          /\ Predicted =>
                /\ Len(call.opposing_lineup) = 5
                /\ call.opposing_lineup = session.opposing_lineup
                /\ \A i \in 1..5 :
                      call.opposing_lineup[i] \in RosterOf(call.away_team, call.season)
          /\ Did("filter") => Len(session.opposing_lineup) = 5)
    /\ [][OpponentPrompt =>
            IF Strip(last_line') \in RosterOf(session.away_team, session.season)
            THEN session'.opposing_lineup = Append(session.opposing_lineup, Strip(last_line'))
            ELSE /\ session'.opposing_lineup = session.opposing_lineup
                 /\ spc' = "opponents"
                 /\ trace' = trace]_vars

\* a prediction called after an opponent entry was rejected and re-prompted
C11_Witness ==
    /\ spc = "predicting"
    /\ stdin_read > 14
    /\ Len(call.opposing_lineup) = 5
    /\ Times("opp") = 5

Unknowns(l) == Cardinality({i \in 1..Len(l) : l[i] = QM})

\* C12 as stated: whenever find_optimal_fifth_player is called, the lineup
\* has 5 slots of which exactly one is '?', and the list of known players
\* has exactly 4 names.
C12_ExactlyOneUnknown ==
    Predicted =>
        /\ Len(session.lineup) = 5
        /\ Unknowns(session.lineup) = 1
        /\ Len(call.four_players) = 4

\* what the code does with several '?': the call is made with fewer than 4
\* known players, every candidate fails (player_encodings[3]) and the
\* session ends with "No valid recommendations found."
C12_SeveralUnknownsPredicted ==
    /\ Predicted
    /\ Unknowns(session.lineup) > 1
    /\ Len(call.four_players) < 4
    /\ ended = "no valid recommendations"
    /\ Len(warned) = Len(call.candidates)

\* a session fed the 14 lines the harness writes, whose prediction returned
\* recommendations
HarnessRunSucceeded == ended = "recommended" /\ stdin_read = 14 /\ AcceptedReads = HarnessLines

SessionOutput == PredictionOutput(call, session.missing_position, displayed)

\* C13 as stated: when a session fed the harness's lines ends with
\* recommendations, the harness reads the top recommended player's name
\* from the output and counts a valid prediction.
C13_HarnessRecognizes ==
    HarnessRunSucceeded =>
        /\ HarnessCountsValid(SessionOutput)
        /\ HarnessPredicted(SessionOutput) = displayed[1][1]

\* what happens instead: the recommendations are printed as
\* "1. <name> (effectiveness score: ...)", no line holds the harness's
\* marker, and the harness reads no player
C13_OutputNotRecognized ==
    /\ HarnessRunSucceeded
    /\ \E i \in 1..Len(SessionOutput) :
          SessionOutput[i] = RecommendationLine(1, displayed[1][1], displayed[1][2])
    /\ HarnessPredicted(SessionOutput) = None
    /\ ~HarnessCountsValid(SessionOutput)

(***************************************************************************)
(* Claims about encode_categorical_features and train_pipeline, checked    *)
(* under Spec.                                                             *)
(***************************************************************************)
Encoded == encoded # NotEncoded
CellColumns == 1..(5 + AwayColumns(examples))
CellAt(c, i) ==
    IF c <= 5 THEN <<examples[i].player_1, examples[i].player_2, examples[i].player_3,
                     examples[i].player_4, examples[i].fifth_player>>[c]
    ELSE IF c - 5 <= Len(examples[i].away_player) THEN examples[i].away_player[c - 5]
    ELSE NaN

\* the codes a name received over all player columns of the encoded table
CodesOfName(name) ==
    UNION {{encoded.player_encoded[c][i] : i \in {r \in 1..Len(examples) : CellAt(c, r) = name}} :
              c \in CellColumns}

RoundTrips(classes, labels) ==
    /\ Range(classes) = labels
    /\ Len(classes) = Cardinality(labels)
    /\ \A n \in labels :
          /\ Transform(classes, n) \in 0..(Len(classes) - 1)
          /\ InverseTransform(classes, Transform(classes, n)) = n
    /\ \A a, b \in labels : Transform(classes, a) = Transform(classes, b) => a = b

\* C14: when encode_categorical_features returns, the player codebook is a
\* bijection between the names pooled over all player columns and the codes
\* 0..n-1; every name has one code over all columns of the encoded table
\* (known player, candidate, opponent) and distinct names have distinct
\* codes; decoding the code of a cell returns its name; each team codebook
\* round-trips the names of its column.
C14_SharedCodebook ==
    Encoded =>
        /\ RoundTrips(encoded.encoders.player, PooledPlayers(examples))
        /\ \A n \in PooledPlayers(examples) :
              CodesOfName(n) = {Transform(encoded.encoders.player, n)}
        /\ \A a, b \in PooledPlayers(examples) :
              a # b => CodesOfName(a) \cap CodesOfName(b) = {}
        /\ \A c \in CellColumns : \A i \in 1..Len(examples) :
              InverseTransform(encoded.encoders.player, encoded.player_encoded[c][i])
                  = CellAt(c, i)
        /\ RoundTrips(encoded.encoders.home_team,
                      {examples[i].home_team : i \in 1..Len(examples)})
        /\ RoundTrips(encoded.encoders.away_team,
                      {examples[i].away_team : i \in 1..Len(examples)})
        /\ \A i \in 1..Len(examples) :
              /\ InverseTransform(encoded.encoders.home_team, encoded.home_team_encoded[i])
                    = examples[i].home_team
              /\ InverseTransform(encoded.encoders.away_team, encoded.away_team_encoded[i])
                    = examples[i].away_team

\* an encoded table in which one name is a known player, a candidate and an
\* opponent
C14_Witness ==
    /\ Encoded
    /\ \E n \in PooledPlayers(examples) :
          /\ \E c \in 1..4 : \E i \in 1..Len(examples) : CellAt(c, i) = n
          /\ \E i \in 1..Len(examples) : CellAt(5, i) = n
          /\ \E c \in 6..(5 + AwayColumns(examples)) : \E i \in 1..Len(examples) :
                CellAt(c, i) = n
    /\ Len(encoded.encoders.player) > 2

\* the pipeline failed while building examples, encoding, fitting or saving
PipelineFailed == printed # <<>>

\* C17 as stated: train_pipeline never propagates an exception raised while
\* building examples, encoding, fitting or saving; after such a failure it
\* has printed a message, returns None and no artifact is written.
C17_FailureIsContained ==
    /\ train_result.kind # "propagated"
    /\ (tpc = "end" /\ PipelineFailed) =>
          /\ train_result = [kind |-> "returned", value |-> "None"]
          /\ artifact = "absent"

\* what happens instead: the builder raises on a table without a usable
\* row, the handler prints its message and then fails on the name
\* traceback, and the NameError leaves train_pipeline
C17_NameErrorPropagates ==
    /\ tpc = "end"
    /\ outcome.kind = "raise"
    /\ printed = <<EmptyMsg>>
    /\ train_result = [kind |-> "propagated", value |-> "NameError"]
    /\ artifact = "absent"

\* C18 as stated: every player-valued cell of the table handed to
\* encode_categorical_features (4 known players, candidate, every opponent
\* column of the table) holds a name of the shared player codebook, so the
\* encoding returns.
C18_EveryExampleEncodable ==
    tpc \in {"encode", "fit", "save", "end"} /\ outcome.kind = "return" =>
        /\ \A c \in CellColumns : \A i \in 1..Len(examples) :
              Seen(FitEncoders(examples).player, CellAt(c, i))
        /\ tpc = "end" => (Encoded \/ printed = <<"OSError">>)

\* what happens instead: rows with different numbers of away players are
\* accepted, the shorter ones hold NaN in the later opponent columns, the
\* codebook drops NaN and transform raises on it
C18_MissingOpponentRaises ==
    /\ tpc = "end"
    /\ outcome.kind = "return"
    /\ \E i, j \in 1..Len(examples) :
          Len(examples[i].away_player) = 5 /\ Len(examples[j].away_player) < 5
    /\ TransformRaises(examples)
    /\ ~Encoded
    /\ printed = <<"y contains previously unseen labels">>

(***************************************************************************)
(* Claims about create_player_ratings, checked under SpecRatings.          *)
(***************************************************************************)
RatingsCreated == pc # "start"
PlayerCounts == [p \in AllPlayers(data) |-> PlayerCount(data, p)]
PairingFactorOf(p) == PairingFactor(MeanOf(PairingCounts(data, p)), MaxCount(PlayerCounts))
OpponentFactorOf(p) == OpponentFactor(MeanOf(OpponentCounts(data, p)), MaxCount(PlayerCounts))
HomeWinFactorOf(p) == HomeWinFactor(HomeWinCount(data, p), PlayerCounts[p])
BaseRatingOf(p) ==
    BaseRating(PlayerCounts[p], MinCount(PlayerCounts),
               MaxCount(PlayerCounts) - MinCount(PlayerCounts))

\* C15 as stated: for every table and every player, the base rating is in
\* [0.5, 1.0], the pairing factor in [1.0, 1.3], the opponent factor in
\* [1.0, 1.2] and the home-win factor in [1.0, 1.3]; the average pairing and
\* opponent counts do not exceed the maximum appearance count and the
\* home-win count does not exceed the appearance count.
C15_FactorsWithinBounds ==
    RatingsCreated =>
        \A p \in DOMAIN player_ratings :
            /\ BaseRatingOf(p) >= Scale \div 2 /\ BaseRatingOf(p) <= Scale
            /\ PairingFactorOf(p) >= Scale /\ PairingFactorOf(p) <= (13 * Scale) \div 10
            /\ OpponentFactorOf(p) >= Scale /\ OpponentFactorOf(p) <= (12 * Scale) \div 10
            /\ HomeWinFactorOf(p) >= Scale /\ HomeWinFactorOf(p) <= (13 * Scale) \div 10
            /\ MeanOf(PairingCounts(data, p)) <= MaxCount(PlayerCounts) * Scale
            /\ MeanOf(OpponentCounts(data, p)) <= MaxCount(PlayerCounts) * Scale
            /\ HomeWinCount(data, p) <= PlayerCounts[p]

\* what happens instead: in the one-row table with home A, A, B, B, C the
\* pairs A-B are counted 4 times while no player appears more than twice,
\* and the pairing factor of A exceeds 1.3
C15_PairingAboveBound ==
    /\ RatingsCreated
    /\ Len(data) = 1
    /\ nA \in DOMAIN player_ratings
    /\ PairingCounts(data, nA)[nB] = 4
    /\ MaxCount(PlayerCounts) = 2
    /\ PairingFactorOf(nA) > (13 * Scale) \div 10
    /\ player_ratings[nA] =
          (((((BaseRatingOf(nA) * PairingFactorOf(nA)) \div Scale) * OpponentFactorOf(nA))
              \div Scale) * HomeWinFactorOf(nA)) \div Scale

(***************************************************************************)
(* SpecScorer: calls of calculate_lineup_effectiveness and of              *)
(* create_team_ratings in any order, with other draws from the random      *)
(* module in between.  scoreLog keeps, per call, the lineup and its        *)
(* synergy factor, or the team ratings returned.                           *)
(***************************************************************************)
LineupPool ==
    { <<nA, nB, nC>>, <<nC, nA, nB>>, <<nA, nA, nB>>, <<nA, nB, nB>>, <<nB, nA, nA>> }

TeamTablePool ==
    { <<MkRow(1, 2007, 0, tLAL, tPHO, <<nA, nB, nC, nD, nE>>, NoAway, 1)>>,
      <<MkRow(1, 2007, 0, tXYZ, tLAL, <<nA, nB, nC, nD, nE>>, NoAway, 1)>>,
      <<MkRow(1, 2007, 0, tPHO, tXYZ, <<nA, nB, nC, nD, nE>>, NoAway, 1),
        MkRow(2, 2007, 0, tLAL, tPHO, <<nA, nB, nC, nD, nE>>, NoAway, 1)>> }

\* lines 117-120 of one call of the scorer
ScoreLineup ==
    /\ pc = "calls"
    /\ Len(scoreLog) < MaxCalls
    /\ \E players \in LineupPool :
          /\ scoreLog' = Append(scoreLog, [kind |-> "synergy", players |-> players,
                                           value |-> SynergyFactor(players)])
          /\ pyRandom' = RandomAfterScore(players)
    /\ UNCHANGED <<data, salt, npState, player_ratings, team_ratings, order, rowPos,
                   leave_out_idx, other_players, altIter, example, base_effectiveness,
                   examples, prov, pc, outcome>>

\* lines 97-108: one call of create_team_ratings
RateTeams ==
    /\ pc = "calls"
    /\ Len(scoreLog) < MaxCalls
    /\ \E table \in TeamTablePool :
          /\ team_ratings' = create_team_ratings(table)
          /\ scoreLog' = Append(scoreLog, [kind |-> "teams",
                                           value |-> create_team_ratings(table)])
          /\ pyRandom' = RandomAfterTeams(salt, table, pyRandom)
    /\ UNCHANGED <<data, salt, npState, player_ratings, order, rowPos,
                   leave_out_idx, other_players, altIter, example, base_effectiveness,
                   examples, prov, pc, outcome>>

\* any other random.random() of the process
OtherDraw ==
    /\ pc = "calls"
    /\ pyRandom.draws < MaxOtherDraws + 1
    /\ pyRandom' = Advance(pyRandom)
    /\ UNCHANGED <<data, salt, npState, player_ratings, team_ratings, order, rowPos,
                   leave_out_idx, other_players, altIter, example, base_effectiveness,
                   examples, scoreLog, prov, pc, outcome>>

InitScorer ==
    /\ data = <<>>
    /\ salt \in 0..(NumHashSeeds - 1)
    /\ npState = Seeded(0)
    /\ pyRandom \in {Seeded(k) : k \in 0..(NumPySeeds - 1)}
    /\ player_ratings = <<>>
    /\ team_ratings = <<>>
    /\ order = <<>>
    /\ rowPos = 0
    /\ leave_out_idx = 0
    /\ other_players = {}
    /\ altIter = 0
    /\ example = NoExample
    /\ base_effectiveness = 0
    /\ examples = <<>>
    /\ scoreLog = <<>>
    /\ prov = <<>>
    /\ pc = "calls"
    /\ outcome = NoOutcome
    /\ RankIdle
    /\ SessionIdle
    /\ TrainIdle

NextScorer ==
    \/ ScoreLineup /\ UNCHANGED <<rvars, svars, tvars>>
    \/ RateTeams /\ UNCHANGED <<rvars, svars, tvars>>
    \/ OtherDraw /\ UNCHANGED <<rvars, svars, tvars>>

SpecScorer == InitScorer /\ [][NextScorer]_vars

(***************************************************************************)
(* Claims about the scorer's synergy factor and the team ratings, checked  *)
(* under SpecScorer.                                                       *)
(***************************************************************************)
SameNames(a, b) == \A n \in Range(a) \cup Range(b) : Occ(a, n) = Occ(b, n)
SynergyCalls == {i \in 1..Len(scoreLog) : scoreLog[i].kind = "synergy"}
TeamCalls == {i \in 1..Len(scoreLog) : scoreLog[i].kind = "teams"}

\* C16: any two scorer calls whose lineups hold the same names, each as
\* often, in any order and whatever was drawn from the random module in
\* between, get the same synergy factor; any two calls of
\* create_team_ratings give a team they both rate the same rating.
C16_SynergyAndTeamsDeterministic ==
    /\ \A i, j \in SynergyCalls :
          SameNames(scoreLog[i].players, scoreLog[j].players)
              => scoreLog[i].value = scoreLog[j].value
    /\ \A i, j \in TeamCalls :
          \A t \in DOMAIN scoreLog[i].value \cap DOMAIN scoreLog[j].value :
              scoreLog[i].value[t] = scoreLog[j].value[t]

\* two calls with the same names in a different order, made in different
\* states of the random module; and two team tables that share a team
C16_Witness ==
    /\ \E i, j \in SynergyCalls :
          /\ i + 1 < j
          /\ scoreLog[i].players # scoreLog[j].players
          /\ SameNames(scoreLog[i].players, scoreLog[j].players)
    /\ \E i, j \in TeamCalls :
          /\ DOMAIN scoreLog[i].value # DOMAIN scoreLog[j].value
          /\ DOMAIN scoreLog[i].value \cap DOMAIN scoreLog[j].value # {}
    /\ pyRandom.draws > 1

(***************************************************************************)
(* Claim about the random module shared by the scorer and the builder,     *)
(* checked under Spec.                                                     *)
(***************************************************************************)
\* the alternative just drawn, the lineup scored right before the draw and
\* the pool it was drawn from
LastAlt == examples[Len(examples)].fifth_player
ScoredBeforeDraw == scoreLog[Len(scoreLog) - 1].players
PoolBeforeDraw == other_players \cup {LastAlt}

\* C19: every alternative is the element of the pool, in the pool's
\* iteration order, that random.choice picks from the generator seeded with
\* the name hash of the lineup scored right before the draw and advanced by
\* the scorer's one draw; nothing else enters, so runs over the same table
\* with the same pool order choose the same alternatives whatever the random
\* module's state was before the run.
C19_AlternativesDetermined ==
    (pc = "alt" /\ altIter >= 1) =>
        LET seeded == Advance(Seeded(Md5Mod(Concat(Sorted(ScoredBeforeDraw)))))
            pool == ListOfSet(salt, PoolBeforeDraw)
        IN  /\ LastAlt = pool[ChoiceIndex(seeded, Len(pool))]
            /\ pyRandom = Advance(Seeded(Md5Mod(Concat(Sorted(
                              scoreLog[Len(scoreLog)].players)))))
            /\ scoreLog[Len(scoreLog)].players = Append(remaining_players, LastAlt)
            /\ ScoredBeforeDraw =
                  (IF altIter = 1 THEN remaining_players
                   ELSE Append(remaining_players, examples[Len(examples) - 1].fifth_player))

\* a first alternative picked from a pool of at least three players, and
\* not the first of the pool's iteration order
C19_Witness ==
    /\ pc = "alt"
    /\ altIter = 1
    /\ Cardinality(PoolBeforeDraw) >= 3
    /\ LastAlt # ListOfSet(salt, PoolBeforeDraw)[1]

====
